---- MODULE Spec2Model ----
(***************************************************************************)
(* ARGOS: retriever, verifier and answer API, modelled from the Python     *)
(* sources under src/.                                                     *)
(*                                                                         *)
(* Strings are sequences of one-character strings, so that lower(),        *)
(* split(), strip() and the `in` substring test are computed, not assumed. *)
(* A JSON object / Python dict is a function whose DOMAIN is the set of    *)
(* keys that are present.  Confidences are kept in tenths (0.9 is 9).      *)
(***************************************************************************)
EXTENDS Integers, Sequences, FiniteSets, TLC

VARIABLES
    verifyReq,      \* body of the last POST /v1/verify, or NoBody
    verifyResp,     \* response to it, or NoResp
    corpusFile,     \* the seed corpus file: [exists |-> FALSE] or its JSON array
    retrieverCache, \* what lru_cache holds for get_retriever
    corpusReads,    \* how many times the process has opened and read the file
    searchReq,      \* body of the last POST /v1/search, or NoBody
    searchResults,  \* `results` of that call: what SimpleRetriever.search returned
    searchResp,     \* response to it, or NoResp
    pc,             \* where the /v1/answer handler is: idle, retrieve, synth, done
    request,        \* the body POSTed to /v1/answer, or NoBody
    trace_id,       \* the handler's trace_id
    retrieverCalls, \* the JSON bodies the handler sent to the retriever, in order
    verifierCalls,  \* the handler's verifier calls, in order: body sent, reply got
    sources_raw,    \* data.get("results", []) of the retriever's reply
    sources,        \* the Source models kept
    idx,            \* position of the synthesis loop in sources (1-based)
    sentences,      \* the Sentence models built so far
    citations_map,  \* source_id -> citation index
    citation_counter,
    answer_html_parts,
    gauges,         \* the four Prometheus gauges of the answer API
    response,       \* the handler's HTTP response, or NoResp
    metricCall,     \* the last call of support_weighted_accuracy: its sentences
    metricSwa,      \* what support_weighted_accuracy returned for it
    logsDir,        \* the --logs directory of nightly_report: absent or its files
    report,         \* outcome of the last nightly_report run
    handlers        \* the /v1/answer requests in flight in one process

verifierVars == <<verifyReq, verifyResp>>
retrieverVars == <<corpusFile, retrieverCache, corpusReads, searchReq, searchResults,
                   searchResp>>
answerVars == <<pc, request, trace_id, retrieverCalls, verifierCalls, sources_raw,
                sources, idx, sentences, citations_map, citation_counter,
                answer_html_parts, gauges, response>>
evalVars == <<metricCall, metricSwa, logsDir, report>>
vars == <<verifierVars, retrieverVars, answerVars, evalVars, handlers>>

\* ------------------------------------------------------------------ bounds
MaxEvidence == 2
MaxDocs == 3
MaxResults == 2
MaxReads == 2
MaxSentences == 2
MaxFiles == 3
MaxRequests == 2

\* ----------------------------------------------------------------- strings
Whitespace == {" "}

\* A character outside ASCII is written by its name: "SIGMA" is U+03A3 (capital
\* sigma), "sigma" is U+03C3 and "fsigma" is U+03C2 (final small sigma).
\* The cased and the case-ignorable characters of the alphabet in use; the
\* full stop is case-ignorable, the space is neither.
Cased == {"a", "b", "c", "q", "z", "A", "B", "SIGMA", "sigma", "fsigma"}
CaseIgnorable == {"."}

\* str.lower() of one character out of context
LowerChar(c) ==
    IF c = "A" THEN "a" ELSE IF c = "B" THEN "b"
    ELSE IF c = "SIGMA" THEN "sigma" ELSE c

\* str.lower() of the capital sigma at position i of s: the final form when a
\* cased character precedes it and none follows it, case-ignorable characters
\* skipped on both sides
LowerSigma(s, i) ==
    LET before == \E j \in 1..(i - 1) :
                      /\ s[j] \in Cased
                      /\ \A k \in (j + 1)..(i - 1) : s[k] \in CaseIgnorable
        after  == \E j \in (i + 1)..Len(s) :
                      /\ s[j] \in Cased
                      /\ \A k \in (i + 1)..(j - 1) : s[k] \in CaseIgnorable
    IN  IF before /\ ~after THEN "fsigma" ELSE "sigma"

\* str.lower()
lower(s) ==
    [i \in 1..Len(s) |->
        IF s[i] = "SIGMA" THEN LowerSigma(s, i) ELSE LowerChar(s[i])]

\* str.split() with no argument: maximal runs of non-whitespace, in order
RECURSIVE SplitFrom(_, _, _)
SplitFrom(s, i, cur) ==
    IF i > Len(s)
    THEN IF cur = <<>> THEN <<>> ELSE <<cur>>
    ELSE IF s[i] \in Whitespace
         THEN IF cur = <<>>
              THEN SplitFrom(s, i + 1, <<>>)
              ELSE <<cur>> \o SplitFrom(s, i + 1, <<>>)
         ELSE SplitFrom(s, i + 1, Append(cur, s[i]))

split(s) == SplitFrom(s, 1, <<>>)

SeqToSet(q) == {q[i] : i \in 1..Len(q)}

\* x in y, for strings
IsSubstring(x, y) ==
    \E i \in 0..(Len(y) - Len(x)) : SubSeq(y, i + 1, i + Len(x)) = x

\* s.split(".")[0]
BeforeFirstPeriod(s) ==
    IF \E i \in 1..Len(s) : s[i] = "."
    THEN LET i == CHOOSE i \in 1..Len(s) :
                      s[i] = "." /\ \A j \in 1..(i - 1) : s[j] # "."
         IN  SubSeq(s, 1, i - 1)
    ELSE s

\* str.strip()
strip(s) ==
    IF \A i \in 1..Len(s) : s[i] \in Whitespace
    THEN <<>>
    ELSE LET a == CHOOSE i \in 1..Len(s) :
                      s[i] \notin Whitespace /\ \A j \in 1..(i - 1) : s[j] \in Whitespace
             b == CHOOSE i \in 1..Len(s) :
                      s[i] \notin Whitespace /\ \A j \in (i + 1)..Len(s) : s[j] \in Whitespace
         IN  SubSeq(s, a, b)

\* str.find(sub, start): 0-based position of the first occurrence at or after
\* start, or -1
find(text, sub, start) ==
    LET hits == { i \in start..(Len(text) - Len(sub)) :
                    SubSeq(text, i + 1, i + Len(sub)) = sub }
    IN  IF hits = {} THEN -1
        ELSE CHOOSE i \in hits : \A j \in hits : i <= j

\* exact fractions for the float results: num / den with den >= 1, reduced
RECURSIVE GCD(_, _)
GCD(a, b) == IF b = 0 THEN a ELSE GCD(b, a % b)

Abs(n) == IF n < 0 THEN -n ELSE n

Frac(n, d) ==
    LET g == GCD(Abs(n), Abs(d))
        sgn == IF d < 0 THEN -1 ELSE 1
    IN  [num |-> sgn * (n \div g), den |-> sgn * (d \div g)]

FracAdd(a, b) == Frac(a.num * b.den + b.num * a.den, a.den * b.den)
FracSub(a, b) == Frac(a.num * b.den - b.num * a.den, a.den * b.den)
FracMul(a, b) == Frac(a.num * b.num, a.den * b.den)
FracDiv(a, b) == Frac(a.num * b.den, a.den * b.num)
FracAbs(a) == [num |-> Abs(a.num), den |-> a.den]
FracZero == [num |-> 0, den |-> 1]

\* dict.get(key, default)
Get(d, key, default) == IF key \in DOMAIN d THEN d[key] ELSE default

\* ---------------------------------------------------------------- verifier
NoBody == [none |-> TRUE]
NoResp == [status |-> 0]

\* mutant of VerifyLoop: the first weak match ends the scan
VerifyLoopWeakBreaks(sentence_lower, words, evidence_list, i, acc) ==
    IF i > Len(evidence_list)
    THEN acc
    ELSE LET text == lower(Get(evidence_list[i], "text", <<>>))
         IN  IF IsSubstring(sentence_lower, text)
             THEN [label |-> "entailed", confidence |-> 9]
             ELSE IF words \cap SeqToSet(split(text)) # {}
                  THEN [label |-> "weak", confidence |-> 5]
                  ELSE acc

\* the for loop of verify: entailed breaks, weak keeps scanning
RECURSIVE VerifyLoop(_, _, _, _, _)
VerifyLoop(sentence_lower, words, evidence_list, i, acc) ==
    IF i > Len(evidence_list)
    THEN acc
    ELSE LET text == lower(Get(evidence_list[i], "text", <<>>))
         IN  IF IsSubstring(sentence_lower, text)
             THEN [label |-> "entailed", confidence |-> 9]
             ELSE IF words \cap SeqToSet(split(text)) # {}
                  THEN VerifyLoop(sentence_lower, words, evidence_list, i + 1,
                                  [label |-> "weak", confidence |-> 5])
                  ELSE VerifyLoop(sentence_lower, words, evidence_list, i + 1, acc)

\* mutant of verify: only an unsupported sentence gets the whole-sentence span
verifyWeakNoSpan(body) ==
    LET sentence      == Get(body, "sentence", <<>>)
        evidence_list == Get(body, "evidence", <<>>)
    IN  IF sentence = <<>> \/ evidence_list = <<>>
        THEN [status |-> 400]
        ELSE LET sentence_lower == lower(sentence)
                 words == SeqToSet(split(sentence_lower))
                 r == VerifyLoop(sentence_lower, words, evidence_list, 1,
                                 [label |-> "unsupported", confidence |-> 1])
                 unsupported_spans ==
                     IF r.label = "unsupported" THEN << <<0, Len(sentence)>> >>
                     ELSE <<>>
             IN  [status |-> 200, label |-> r.label, confidence |-> r.confidence,
                  unsupported_spans |-> unsupported_spans]

\* POST /v1/verify as a function of the request body
verify(body) ==
    LET sentence      == Get(body, "sentence", <<>>)
        evidence_list == Get(body, "evidence", <<>>)
    IN  IF sentence = <<>> \/ evidence_list = <<>>
        THEN [status |-> 400]
        ELSE LET sentence_lower == lower(sentence)
                 words == SeqToSet(split(sentence_lower))
                 r == VerifyLoop(sentence_lower, words, evidence_list, 1,
                                 [label |-> "unsupported", confidence |-> 1])
                 unsupported_spans ==
                     IF r.label = "entailed" THEN <<>>
                     ELSE << <<0, Len(sentence)>> >>
             IN  [status |-> 200, label |-> r.label, confidence |-> r.confidence,
                  unsupported_spans |-> unsupported_spans]

\* inputs of the verifier
VerifySentences ==
    { <<>>, <<" ">>, <<"a">>, <<"A">>, <<"a", " ", "b">>, <<"c">>, <<"b", " ", "c">> }

EvidenceTexts ==
    { <<"a", " ", "b", " ", "c">>, <<"b", "a">>, <<"b">>, <<"A", " ", "B">>, <<>> }

EvidenceItems ==
    { [text |-> t, url |-> "u"] : t \in EvidenceTexts } \cup { [url |-> "u"] }

RECURSIVE SeqsUpTo(_, _)
SeqsUpTo(S, n) ==
    IF n = 0 THEN { <<>> }
    ELSE LET shorter == SeqsUpTo(S, n - 1)
         IN  shorter \cup { Append(q, x) : q \in {p \in shorter : Len(p) = n - 1}, x \in S }

VerifyBodies ==
    { [sentence |-> s, evidence |-> e] :
        s \in VerifySentences, e \in SeqsUpTo(EvidenceItems, MaxEvidence) }
    \cup { [sentence |-> s] : s \in VerifySentences }
    \cup { [evidence |-> e] : e \in SeqsUpTo(EvidenceItems, 1) }

VerifierInit ==
    /\ verifyReq = NoBody
    /\ verifyResp = NoResp

Verify ==
    \E body \in VerifyBodies :
        /\ verifyReq' = body
        /\ verifyResp' = verify(body)
        /\ UNCHANGED <<retrieverVars, answerVars, evalVars, handlers>>

\* --------------------------------------------------------------- retriever
DefaultTopK == 6
SnippetLimit == 200

\* a float score kept exact: num / den, den >= 1
Zero == [num |-> 0, den |-> 1]
ScoreGt(a, b) == a.num * b.den > b.num * a.den
ScoreEq(a, b) == a.num * b.den = b.num * a.den

\* Document.tokens
tokens(doc) == SeqToSet(split(lower(doc.content)))

\* SimpleRetriever._load_corpus: one Document per entry, in file order
load_corpus(data) ==
    [i \in 1..Len(data) |->
        [source_id |-> data[i].source_id, title |-> data[i].title,
         url |-> data[i].url, content |-> data[i].content]]

\* SimpleRetriever._score
score(doc_tokens, query_tokens) ==
    IF query_tokens = {} THEN Zero
    ELSE [num |-> Cardinality(query_tokens \cap doc_tokens),
          den |-> Cardinality(query_tokens)]

\* seq[:k]
SliceTo(q, k) ==
    IF k >= 0
    THEN SubSeq(q, 1, IF k < Len(q) THEN k ELSE Len(q))
    ELSE SubSeq(q, 1, IF Len(q) + k > 0 THEN Len(q) + k ELSE 0)

\* mutant of InsertDesc: equal keys end up in reverse order
RECURSIVE InsertDescTiesReversed(_, _)
InsertDescTiesReversed(sorted, x) ==
    IF sorted = <<>> THEN <<x>>
    ELSE IF ~ScoreGt(sorted[1].score, x.score)
         THEN <<x>> \o sorted
         ELSE <<sorted[1]>> \o InsertDescTiesReversed(Tail(sorted), x)

\* list.sort(key=score, reverse=True): stable, equal keys keep their order
RECURSIVE InsertDesc(_, _)
InsertDesc(sorted, x) ==
    IF sorted = <<>> THEN <<x>>
    ELSE IF ScoreGt(x.score, sorted[1].score)
         THEN <<x>> \o sorted
         ELSE <<sorted[1]>> \o InsertDesc(Tail(sorted), x)

RECURSIVE SortDesc(_)
SortDesc(q) ==
    IF q = <<>> THEN <<>>
    ELSE InsertDesc(SortDesc(SubSeq(q, 1, Len(q) - 1)), q[Len(q)])

\* the scoring loop of search: (doc, score) for every doc with score > 0.
\* A doc is named by its position in self.documents.
RECURSIVE Scored(_, _, _)
Scored(documents, query_tokens, i) ==
    IF i > Len(documents) THEN <<>>
    ELSE LET sc == score(tokens(documents[i]), query_tokens)
         IN  (IF sc.num > 0 THEN << [doc |-> i, score |-> sc] >> ELSE <<>>)
             \o Scored(documents, query_tokens, i + 1)

\* SimpleRetriever.search
search(documents, query, top_k) ==
    LET query_tokens == SeqToSet(split(lower(query)))
        scores == Scored(documents, query_tokens, 1)
    IN  IF scores = <<>>
        THEN LET first == SliceTo([i \in 1..Len(documents) |-> i], top_k)
             IN  [j \in 1..Len(first) |-> [doc |-> first[j], score |-> Zero]]
        ELSE SliceTo(SortDesc(scores), top_k)

\* _load_corpus raises after opening the file: its content is not JSON (the
\* file has no data), or an entry lacks one of the four keys
LoadRaises(file) ==
    \/ "data" \notin DOMAIN file
    \/ \E i \in 1..Len(file.data) :
          ~({"source_id", "title", "url", "content"} \subseteq DOMAIN file.data[i])

\* mutant of get_retriever: no lru_cache, every call builds a new instance
get_retrieverUncached(cache, file) ==
    IF ~file.exists
    THEN [raised |-> TRUE, read |-> FALSE, cache |-> cache]
    ELSE IF LoadRaises(file)
    THEN [raised |-> TRUE, read |-> TRUE, cache |-> cache]
    ELSE [raised |-> FALSE, read |-> TRUE,
          cache |-> [cached |-> TRUE, documents |-> load_corpus(file.data)]]

\* mutant of get_retriever: a missing file yields an empty instance that is
\* cached like any other
get_retrieverEmptyOnMissing(cache, file) ==
    IF cache.cached
    THEN [raised |-> FALSE, read |-> FALSE, cache |-> cache]
    ELSE IF ~file.exists
         THEN [raised |-> FALSE, read |-> FALSE,
               cache |-> [cached |-> TRUE, documents |-> <<>>]]
         ELSE IF LoadRaises(file)
         THEN [raised |-> TRUE, read |-> TRUE, cache |-> cache]
         ELSE [raised |-> FALSE, read |-> TRUE,
               cache |-> [cached |-> TRUE, documents |-> load_corpus(file.data)]]

\* get_retriever under lru_cache(maxsize=1): an exception is not cached.
\* `read` tells whether this call opened and read the corpus file.
get_retriever(cache, file) ==
    IF cache.cached
    THEN [raised |-> FALSE, read |-> FALSE, cache |-> cache]
    ELSE IF ~file.exists
         THEN [raised |-> TRUE, read |-> FALSE, cache |-> cache]
         ELSE IF LoadRaises(file)
         THEN [raised |-> TRUE, read |-> TRUE, cache |-> cache]
         ELSE [raised |-> FALSE, read |-> TRUE,
               cache |-> [cached |-> TRUE, documents |-> load_corpus(file.data)]]

\* the count of reads of the corpus file, kept up to MaxReads
CountRead(n, read) == IF read /\ n < MaxReads THEN n + 1 ELSE n

\* doc.content[:200] + ("…" if len(doc.content) > 200 else "")
Snippet(content) ==
    IF Len(content) > SnippetLimit
    THEN Append(SubSeq(content, 1, SnippetLimit), "...")
    ELSE content

\* the response body of /v1/search
SearchResponse(documents, results, tid) ==
    [status |-> 200, trace_id |-> tid,
     results |-> [j \in 1..Len(results) |->
        LET doc == documents[results[j].doc]
        IN  [source_id |-> doc.source_id, title |-> doc.title, url |-> doc.url,
             snippet |-> Snippet(doc.content), score |-> results[j].score]]]

\* inputs of the retriever
DocEntries ==
    { [source_id |-> "d1", title |-> "T1", url |-> "http://h/1",
       content |-> <<"a", " ", "b">>],
      [source_id |-> "d2", title |-> "T2", url |-> "http://h/2",
       content |-> <<"A">>],
      [source_id |-> "d3", title |-> "T3", url |-> "http://h/3",
       content |-> <<"b", " ", "c">>],
      [source_id |-> "d4", title |-> "T4", url |-> "http://h/4",
       content |-> <<"c", ".">>] }

Corpora == SeqsUpTo(DocEntries, MaxDocs)

SearchQueries ==
    { <<>>, <<" ">>, <<"a">>, <<"a", " ", "B">>, <<"z">>,
      <<"a", " ", "b", " ", "c">>, <<"b", " ", "z">> }

SearchTopKs == {-1, 0, 1, 2}

SearchBodies ==
    { [query |-> q, top_k |-> k, trace_id |-> "t1", mode |-> "fast"] :
        q \in SearchQueries, k \in SearchTopKs }
    \cup { [query |-> q] : q \in SearchQueries }
    \cup { [top_k |-> k] : k \in SearchTopKs }

NoResults == <<>>

RetrieverInit ==
    /\ corpusFile \in { [exists |-> FALSE] }
                      \cup { [exists |-> TRUE, data |-> c] : c \in Corpora }
    /\ retrieverCache = [cached |-> FALSE]
    /\ corpusReads = 0
    /\ searchReq = NoBody
    /\ searchResults = NoResults
    /\ searchResp = NoResp

\* POST /v1/search
Search ==
    \E body \in SearchBodies :
        LET query == Get(body, "query", <<>>)
            top_k == Get(body, "top_k", DefaultTopK)
            tid == Get(body, "trace_id", "unknown")
            got == get_retriever(retrieverCache, corpusFile)
        IN  /\ searchReq' = body
            /\ IF query = <<>>
               THEN /\ searchResp' = [status |-> 400]
                    /\ searchResults' = NoResults
                    /\ UNCHANGED <<retrieverCache, corpusReads>>
               ELSE IF got.raised
               THEN /\ searchResp' = [status |-> 500]
                    /\ searchResults' = NoResults
                    /\ corpusReads' = CountRead(corpusReads, got.read)
                    /\ UNCHANGED retrieverCache
               ELSE LET results == search(got.cache.documents, query, top_k)
                    IN  /\ retrieverCache' = got.cache
                        /\ corpusReads' = CountRead(corpusReads, got.read)
                        /\ searchResults' = results
                        /\ searchResp' =
                              SearchResponse(got.cache.documents, results, tid)
            /\ UNCHANGED <<corpusFile, verifierVars, answerVars, evalVars, handlers>>

\* GET /readyz of the retriever
Ready ==
    LET got == get_retriever(retrieverCache, corpusFile)
    IN  /\ retrieverCache' = got.cache
        /\ corpusReads' = CountRead(corpusReads, got.read)
        /\ searchReq' = [readyz |-> TRUE]
        /\ searchResults' = NoResults
        /\ searchResp' = IF got.raised THEN [status |-> 503]
                         ELSE [status |-> 200, body |-> "ready"]
        /\ UNCHANGED <<corpusFile, verifierVars, answerVars, evalVars, handlers>>

SearchNext == Search \/ Ready

DocEntry(id) == CHOOSE d \in DocEntries : d.source_id = id

\* the corpus files one retriever process can meet during its life: none, a
\* file that is not JSON, a file with an entry lacking `content`, and
\* well-formed corpora
ProcessFiles ==
    { [exists |-> FALSE],
      [exists |-> TRUE],
      [exists |-> TRUE,
       data |-> << [source_id |-> "d1", title |-> "T1", url |-> "http://h/1"] >>],
      [exists |-> TRUE, data |-> <<>>],
      [exists |-> TRUE, data |-> << DocEntry("d1") >>],
      [exists |-> TRUE, data |-> << DocEntry("d2"), DocEntry("d3") >>],
      [exists |-> TRUE, data |-> << DocEntry("d4"), DocEntry("d1") >>] }

ProcessInit ==
    /\ corpusFile \in ProcessFiles
    /\ retrieverCache = [cached |-> FALSE]
    /\ corpusReads = 0
    /\ searchReq = NoBody
    /\ searchResults = NoResults
    /\ searchResp = NoResp

\* the environment writes, replaces or removes the corpus file
CorpusChanged ==
    /\ \E f \in ProcessFiles : f # corpusFile /\ corpusFile' = f
    /\ UNCHANGED <<retrieverCache, corpusReads, searchReq, searchResults, searchResp,
                   verifierVars, answerVars, evalVars, handlers>>

ProcessNext == Search \/ Ready \/ CorpusChanged

\* ----------------------------------------------------------- eval.metrics
NoCall == [called |-> FALSE]
NoReport == [ran |-> FALSE]

\* Float results are kept as exact fractions; a confidence c is c/10.
NumBuckets == 10

\* _tokenize
tokenize(text) == split(strip(text))

\* mutant of SpanScan: every token is searched from the start of the text
RECURSIVE SpanScanNoOffset(_, _, _, _, _)
SpanScanNoOffset(text, toks, span, i, offset) ==
    IF i > Len(toks) THEN {}
    ELSE LET start == find(text, toks[i], 0)
             end   == start + Len(toks[i])
         IN  (IF start < span[2] /\ end > span[1] THEN {i - 1} ELSE {})
             \cup SpanScanNoOffset(text, toks, span, i + 1, end)

\* the loop of _span_token_indices over tokens i.. with the running offset
RECURSIVE SpanScan(_, _, _, _, _)
SpanScan(text, toks, span, i, offset) ==
    IF i > Len(toks) THEN {}
    ELSE LET start == find(text, toks[i], offset)
             end   == start + Len(toks[i])
         IN  (IF start < span[2] /\ end > span[1] THEN {i - 1} ELSE {})
             \cup SpanScan(text, toks, span, i + 1, end)

\* _span_token_indices: the (0-based) tokens a char span covers
span_token_indices(text, span) == SpanScan(text, tokenize(text), span, 1, 0)

\* the unsupported_token_idxs set the metric functions build for a sentence
unsupported_token_idxs(s) ==
    LET text == Get(s, "text", <<>>)
        spans == Get(Get(s, "verifier", <<>>), "unsupported_spans", <<>>)
    IN  UNION { span_token_indices(text, spans[k]) : k \in 1..Len(spans) }

\* what every metric function derives from a sentence: its token count and
\* the size of its unsupported_token_idxs set
TokenStats(s) ==
    [total |-> Len(tokenize(Get(s, "text", <<>>))),
     unsupported |-> Cardinality(unsupported_token_idxs(s))]

RECURSIVE StatsOf(_, _)
StatsOf(ss, i) ==
    IF i > Len(ss) THEN <<>> ELSE <<TokenStats(ss[i])>> \o StatsOf(ss, i + 1)

\* the accumulation loop of support_weighted_accuracy
RECURSIVE SwaSums(_, _, _, _)
SwaSums(ss, st, i, acc) ==
    IF i > Len(ss) THEN acc
    ELSE LET weight == Get(ss[i], "weight", 1)
             supported == st[i].total - st[i].unsupported
         IN  SwaSums(ss, st, i + 1,
                     [num |-> acc.num + weight * supported,
                      den |-> acc.den + weight * st[i].total])

support_weighted_accuracy(ss) ==
    LET t == SwaSums(ss, StatsOf(ss, 1), 1, [num |-> 0, den |-> 0])
    IN  IF t.den # 0 THEN Frac(t.num, t.den) ELSE FracZero

\* the accumulation loop of no_evidence_rate
RECURSIVE NerSums(_, _, _)
NerSums(st, i, acc) ==
    IF i > Len(st) THEN acc
    ELSE NerSums(st, i + 1,
                 [unsupported |-> acc.unsupported + st[i].unsupported,
                  total |-> acc.total + st[i].total])

no_evidence_rate(ss) ==
    LET t == NerSums(StatsOf(ss, 1), 1, [unsupported |-> 0, total |-> 0])
    IN  IF t.total # 0 THEN Frac(t.unsupported, t.total) ELSE FracZero

contradiction_rate(ss) == FracZero

Confidence(s) == Get(Get(s, "verifier", <<>>), "confidence", 5)

\* min(int(conf * num_buckets), num_buckets - 1)
BucketOf(s, num_buckets) ==
    LET b == (Confidence(s) * num_buckets) \div 10
    IN  IF b < num_buckets - 1 THEN b ELSE num_buckets - 1

\* the first loop of calibration_error, for bucket b:
\* bucket_totals[b], bucket_supports[b], bucket_confidences[b]
RECURSIVE BucketSums(_, _, _, _, _, _)
BucketSums(ss, st, i, b, num_buckets, acc) ==
    IF i > Len(ss) THEN acc
    ELSE IF BucketOf(ss[i], num_buckets) # b \/ st[i].total = 0
         THEN BucketSums(ss, st, i + 1, b, num_buckets, acc)
         ELSE BucketSums(ss, st, i + 1, b, num_buckets,
                  [total |-> acc.total + 1,
                   support |-> FracAdd(acc.support,
                                  Frac(st[i].total - st[i].unsupported, st[i].total)),
                   confidence |-> FracAdd(acc.confidence, Frac(Confidence(ss[i]), 10))])

\* one bucket's term of the second loop
EceTerm(t, total_sentences) ==
    IF t.total = 0 THEN FracZero
    ELSE LET avg_conf == FracDiv(t.confidence, Frac(t.total, 1))
             avg_support == FracDiv(t.support, Frac(t.total, 1))
         IN  FracMul(Frac(t.total, total_sentences),
                     FracAbs(FracSub(avg_conf, avg_support)))

RECURSIVE EceSum(_, _, _, _, _, _)
EceSum(ss, st, b, num_buckets, total_sentences, acc) ==
    IF b >= num_buckets THEN acc
    ELSE EceSum(ss, st, b + 1, num_buckets, total_sentences,
                FracAdd(acc,
                        EceTerm(BucketSums(ss, st, 1, b, num_buckets,
                                    [total |-> 0, support |-> FracZero,
                                     confidence |-> FracZero]),
                                total_sentences)))

calibration_error(ss, num_buckets) ==
    LET st == StatsOf(ss, 1)
        total_sentences == Cardinality({ i \in 1..Len(st) : st[i].total > 0 })
    IN  IF total_sentences = 0 THEN FracZero
        ELSE EceSum(ss, st, 0, num_buckets, total_sentences, FracZero)

\* inputs of support_weighted_accuracy: sentence dicts with and without the
\* text, weight and verifier keys
MetricTexts == { <<>>, <<"a", " ", "b">>, <<" ", "a", " ", " ", "a", " ">> }

MetricSpans ==
    { <<>>, << <<0, 2>> >>, << <<0, 3>>, <<1, 2>> >>, << <<3, 3>>, <<4, 6>> >> }

MetricSentenceDicts ==
    { [text |-> t, verifier |-> [unsupported_spans |-> u]] :
        t \in MetricTexts, u \in MetricSpans }
    \cup { [text |-> t, weight |-> 2, verifier |-> [unsupported_spans |-> u]] :
             t \in MetricTexts, u \in MetricSpans }
    \cup { [text |-> <<"a", " ", "b">>, weight |-> 0,
            verifier |-> [unsupported_spans |-> <<>>]],
           [text |-> <<"a", " ", "b">>, weight |-> 1, verifier |-> <<>>],
           [text |-> <<"a", " ", "b">>],
           [weight |-> 1, verifier |-> [unsupported_spans |-> << <<0, 2>> >>]] }

MetricInputs == SeqsUpTo(MetricSentenceDicts, MaxSentences)

\* a call of support_weighted_accuracy
SupportWeightedAccuracy ==
    \E ss \in MetricInputs :
        /\ ~metricCall.called
        /\ metricCall' = [called |-> TRUE, sentences |-> ss]
        /\ metricSwa' = support_weighted_accuracy(ss)
        /\ UNCHANGED <<logsDir, report, verifierVars, retrieverVars, answerVars,
                       handlers>>

\* ------------------------------------------------------ eval.nightly_report
\* A file of the logs directory: its extension, whether json.load accepts its
\* content and, if so, the JSON value: an object (a dict of metric values, in
\* tenths) or an array.
\* load_snapshots: the JSON value of every *.json file that parses, in glob
\* order; none when the directory does not exist
RECURSIVE LoadFiles(_, _)
LoadFiles(files, i) ==
    IF i > Len(files) THEN <<>>
    ELSE (IF files[i].ext = "json" /\ files[i].json
          THEN << [kind |-> files[i].kind, value |-> files[i].value] >>
          ELSE <<>>)
         \o LoadFiles(files, i + 1)

load_snapshots(log_dir) ==
    IF ~log_dir.exists THEN <<>> ELSE LoadFiles(log_dir.files, 1)

\* sum(s.get(key, 0.0) for s in snapshots), in tenths
RECURSIVE SumOf(_, _, _)
SumOf(snapshots, key, i) ==
    IF i > Len(snapshots) THEN 0
    ELSE Get(snapshots[i].value, key, 0) + SumOf(snapshots, key, i + 1)

\* aggregate_metrics: s.get raises on a snapshot that is not a dict
aggregate_metrics(snapshots) ==
    IF snapshots = <<>>
    THEN [raised |-> FALSE,
          agg |-> [swa |-> FracZero, ner |-> FracZero, cr |-> FracZero,
                   ece |-> FracZero]]
    ELSE IF \E i \in 1..Len(snapshots) : snapshots[i].kind # "object"
    THEN [raised |-> TRUE]
    ELSE LET n == Len(snapshots)
         IN  [raised |-> FALSE,
              agg |-> [swa |-> Frac(SumOf(snapshots, "support_rate", 1), 10 * n),
                       ner |-> Frac(SumOf(snapshots, "ner", 1), 10 * n),
                       cr  |-> Frac(SumOf(snapshots, "cr", 1), 10 * n),
                       ece |-> Frac(SumOf(snapshots, "ece", 1), 10 * n)]]

\* the files a logs directory can hold
SnapshotFiles ==
    { [ext |-> "json", json |-> TRUE, kind |-> "object",
       value |-> [support_rate |-> 10, ner |-> 0, cr |-> 0, ece |-> 2]],
      [ext |-> "json", json |-> TRUE, kind |-> "object",
       value |-> [support_rate |-> 5, ner |-> 5]],
      [ext |-> "json", json |-> FALSE],
      [ext |-> "json", json |-> TRUE, kind |-> "array", value |-> <<>>],
      [ext |-> "txt", json |-> FALSE] }

LogDirs ==
    { [exists |-> FALSE] }
    \cup { [exists |-> TRUE, files |-> f] : f \in SeqsUpTo(SnapshotFiles, MaxFiles) }

ReportInit ==
    /\ metricCall = NoCall
    /\ metricSwa = FracZero
    /\ logsDir \in LogDirs
    /\ report = NoReport

\* main(): load, aggregate, write the report; an exception ends the run
\* before write_html_report
NightlyReport ==
    /\ ~report.ran
    /\ LET snapshots == load_snapshots(logsDir)
           a == aggregate_metrics(snapshots)
       IN  report' = IF a.raised
                     THEN [ran |-> TRUE, written |-> FALSE]
                     ELSE [ran |-> TRUE, written |-> TRUE, agg |-> a.agg]
    /\ UNCHANGED <<metricCall, metricSwa, logsDir, verifierVars, retrieverVars,
                   answerVars, handlers>>

\* -------------------------------------------------------------- answer API
AnswerDefaultTopK == 6
TopKMin == 1
TopKMax == 10
Modes == {"fast", "strict"}
Labels == {"entailed", "weak", "unsupported", "contradicted"}
Uuid4 == "uuid4"

\* FastAPI's validation of the body against AnswerRequest (else 422)
ValidAnswerRequest(body) ==
    /\ "query" \in DOMAIN body
    /\ Get(body, "mode", "fast") \in Modes
    /\ Get(body, "top_k", AnswerDefaultTopK) >= TopKMin
    /\ Get(body, "top_k", AnswerDefaultTopK) <= TopKMax
    /\ "trace_id" \in DOMAIN body

\* the AnswerRequest model of a valid body
AnswerRequest(body) ==
    [query |-> body.query, mode |-> Get(body, "mode", "fast"),
     top_k |-> Get(body, "top_k", AnswerDefaultTopK), trace_id |-> body.trace_id]

\* pydantic's HttpUrl: an http(s) scheme and a host; an empty path becomes "/"
HttpUrlValid(u) == u.scheme \in {"http", "https"} /\ u.host # ""
HttpUrl(u) ==
    [scheme |-> u.scheme, host |-> u.host,
     path |-> IF u.path = "" THEN "/" ELSE u.path]

\* mutant of SourceParses: the url is not validated
SourceParsesAnyUrl(s) == {"source_id", "title", "url"} \subseteq DOMAIN s

\* Source(source_id=s["source_id"], title=s["title"], url=s["url"],
\*        snippet=s.get("snippet", "")) raises or not
SourceParses(s) ==
    /\ {"source_id", "title", "url"} \subseteq DOMAIN s
    /\ HttpUrlValid(s.url)

Source(s) ==
    [source_id |-> s.source_id, title |-> s.title, url |-> HttpUrl(s.url),
     snippet |-> Get(s, "snippet", <<>>)]

\* the loop over sources_raw: a record that raises is skipped
RECURSIVE ParseSources(_, _)
ParseSources(raw, i) ==
    IF i > Len(raw) THEN <<>>
    ELSE (IF SourceParses(raw[i]) THEN <<Source(raw[i])>> ELSE <<>>)
         \o ParseSources(raw, i + 1)

\* mutant of RequestRaises: raise_for_status() left out
RequestRaisesTransportOnly(reply) == reply.kind # "http"

\* requests.post(..., timeout=3) followed by raise_for_status(): raises on a
\* transport error, a timeout, or a 4xx/5xx status
RequestRaises(reply) == reply.kind # "http" \/ reply.status >= 400

\* mutant of FirstSent: the strip() left out
FirstSentNoStrip(src) == BeforeFirstPeriod(src.snippet)

\* content.split(".")[0].strip()
FirstSent(src) == strip(BeforeFirstPeriod(src.snippet))

\* mutant of AssignCitation: the `not in citations_map` test left out
AssignCitationAlways(map, counter, source_id) ==
    [map |-> [k \in DOMAIN map \cup {source_id} |->
                 IF k = source_id THEN counter ELSE map[k]],
     counter |-> counter + 1]

\* lines 167-170: a source_id not yet in citations_map takes the counter's
\* value, and the counter moves on
AssignCitation(map, counter, source_id) ==
    IF source_id \in DOMAIN map
    THEN [map |-> map, counter |-> counter]
    ELSE [map |-> map @@ (source_id :> counter), counter |-> counter + 1]

\* mutant of DefaultUnsupported: the 0.5 default used for the confidence
DefaultUnsupportedHalf(first_sent) ==
    [label |-> "unsupported", confidence |-> 5,
     unsupported_spans |-> << <<0, Len(first_sent)>> >>]

\* mutant of DefaultUnsupported: the span's start and end swapped
DefaultUnsupportedSwapped(first_sent) ==
    [label |-> "unsupported", confidence |-> 0,
     unsupported_spans |-> << <<Len(first_sent), 0>> >>]

\* the default result of the except branch
DefaultUnsupported(first_sent) ==
    [label |-> "unsupported", confidence |-> 0,
     unsupported_spans |-> << <<0, Len(first_sent)>> >>]

\* the try/except around the verifier call: raise_for_status, json(),
\* SentenceVerifierResult(...) with its defaults and its validation
VerifierResult(reply, first_sent) ==
    IF RequestRaises(reply) \/ "json" \notin DOMAIN reply
    THEN DefaultUnsupported(first_sent)
    ELSE LET label == Get(reply.json, "label", "unsupported")
             confidence == Get(reply.json, "confidence", 5)
             spans == Get(reply.json, "unsupported_spans", <<>>)
         IN  IF /\ label \in Labels
                /\ confidence >= 0 /\ confidence <= 10
                /\ \A k \in 1..Len(spans) : Len(spans[k]) = 2
             THEN [label |-> label, confidence |-> confidence,
                   unsupported_spans |-> spans]
             ELSE DefaultUnsupported(first_sent)

\* what the retriever service can answer to the handler's POST
U1 == [scheme |-> "http", host |-> "h", path |-> "/1"]
U2 == [scheme |-> "https", host |-> "h", path |-> ""]
UBad == [scheme |-> "", host |-> "", path |-> "not a url"]

RawRecords ==
    { [source_id |-> "s1", title |-> "T1", url |-> U1,
       snippet |-> <<"a", " ", "b", ".", " ", "c">>],
      [source_id |-> "s1", title |-> "T1", url |-> U1,
       snippet |-> <<" ", "A", " ", ".">>],
      [source_id |-> "s2", title |-> "T2", url |-> U2,
       snippet |-> <<" ", ".", "a">>],
      [source_id |-> "s3", title |-> "T3", url |-> U1],
      [source_id |-> "s2", title |-> "T2", url |-> U2, snippet |-> <<"b">>],
      [source_id |-> "s5", title |-> "T5", url |-> U1,
       snippet |-> <<"a", "SIGMA", ".", "b">>],
      [title |-> "T4", url |-> U1, snippet |-> <<"a", ".">>],
      [source_id |-> "s4", title |-> "T4", url |-> UBad, snippet |-> <<"a", ".">>] }

RetrieverReplies(call) ==
    { [kind |-> "transport"], [kind |-> "timeout"],
      [kind |-> "http", status |-> 500] }
    \cup
    IF call.query = <<>>
    THEN { [kind |-> "http", status |-> 400] }
    ELSE { [kind |-> "http", status |-> 200,
            json |-> [trace_id |-> call.trace_id, results |-> l]] :
              l \in SeqsUpTo(RawRecords, MaxResults) }
         \cup { [kind |-> "http", status |-> 200,
                 json |-> [trace_id |-> call.trace_id]],
                [kind |-> "http", status |-> 200] }

\* what the verifier service can answer to the handler's POST
VerifierReplies(call) ==
    LET r == verify(call)
    IN  { [kind |-> "transport"],
          [kind |-> "http", status |-> 500],
          IF r.status = 200
          THEN [kind |-> "http", status |-> 200,
                json |-> [label |-> r.label, confidence |-> r.confidence,
                          unsupported_spans |-> r.unsupported_spans]]
          ELSE [kind |-> "http", status |-> r.status],
          [kind |-> "http", status |-> 200, json |-> <<>>],
          [kind |-> "http", status |-> 200,
           json |-> [label |-> "bogus", confidence |-> 15,
                     unsupported_spans |-> <<>>]],
          [kind |-> "http", status |-> 200] }

Q == <<"q">>

AnswerBodies ==
    { [query |-> Q, trace_id |-> "t1"],
      [query |-> Q, mode |-> "strict", top_k |-> 10, trace_id |-> ""],
      [query |-> Q, mode |-> "fast", top_k |-> 1],
      [query |-> Q],
      [query |-> <<>>, trace_id |-> "t1"],
      [query |-> Q, top_k |-> 0, trace_id |-> "t1"],
      [query |-> Q, top_k |-> 11, trace_id |-> "t1"],
      [query |-> Q, mode |-> "bogus", trace_id |-> "t1"],
      [mode |-> "fast", trace_id |-> "t1"] }

NoGauges == [swa |-> FracZero, ner |-> FracZero, cr |-> FracZero, ece |-> FracZero]

AnswerInit ==
    /\ pc = "idle"
    /\ request = NoBody
    /\ trace_id = ""
    /\ retrieverCalls = <<>>
    /\ verifierCalls = <<>>
    /\ sources_raw = <<>>
    /\ sources = <<>>
    /\ idx = 1
    /\ sentences = <<>>
    /\ citations_map = <<>>
    /\ citation_counter = 1
    /\ answer_html_parts = <<>>
    /\ gauges = NoGauges
    /\ response = NoResp

loopVars == <<sentences, citations_map, citation_counter, answer_html_parts>>

\* the request arrives: validation, then lines 123-125
Answer_Receive ==
    /\ pc = "idle"
    /\ \E body \in AnswerBodies :
          /\ request' = body
          /\ IF ValidAnswerRequest(body)
             THEN /\ trace_id' = (IF body.trace_id # "" THEN body.trace_id ELSE Uuid4)
                  /\ pc' = "retrieve"
                  /\ UNCHANGED response
             ELSE /\ pc' = "done"
                  /\ response' = [status |-> 422]
                  /\ UNCHANGED trace_id
    /\ UNCHANGED <<retrieverCalls, verifierCalls, sources_raw, sources, idx,
                   loopVars, gauges, verifierVars, retrieverVars,
                   evalVars, handlers>>

\* the retriever call and what follows it up to the synthesis loop
Answer_Retrieve ==
    /\ pc = "retrieve"
    /\ LET req == AnswerRequest(request)
           call == [query |-> req.query, top_k |-> req.top_k,
                    trace_id |-> trace_id, mode |-> req.mode]
       IN  \E reply \in RetrieverReplies(call) :
              /\ retrieverCalls' =
                    Append(retrieverCalls, [body |-> call, reply |-> reply])
              /\ IF RequestRaises(reply)
                 THEN /\ response' = [status |-> 502, detail |-> "Retriever error"]
                      /\ pc' = "done"
                      /\ UNCHANGED <<sources_raw, sources>>
                 ELSE IF "json" \notin DOMAIN reply
                 THEN /\ response' = [status |-> 500]
                      /\ pc' = "done"
                      /\ UNCHANGED <<sources_raw, sources>>
                 ELSE LET raw == Get(reply.json, "results", <<>>)
                          parsed == ParseSources(raw, 1)
                      IN  /\ sources_raw' = raw
                          /\ sources' = parsed
                          /\ IF parsed = <<>>
                             THEN /\ response' = [status |-> 404,
                                                  detail |-> "No sources found"]
                                  /\ pc' = "done"
                             ELSE /\ pc' = "synth"
                                  /\ UNCHANGED response
    /\ UNCHANGED <<request, trace_id, verifierCalls, idx, loopVars, gauges,
                   verifierVars, retrieverVars,
                   evalVars, handlers>>

\* one pass of the loop over sources with an empty first sentence
Answer_Skip ==
    /\ pc = "synth"
    /\ idx <= Len(sources)
    /\ FirstSent(sources[idx]) = <<>>
    /\ idx' = idx + 1
    /\ UNCHANGED <<pc, request, trace_id, retrieverCalls, verifierCalls, sources_raw,
                   sources, loopVars, gauges, response, verifierVars, retrieverVars,
                   evalVars, handlers>>

\* one pass of the loop that keeps its sentence: citation, HTML, verifier call
Answer_Verify ==
    /\ pc = "synth"
    /\ idx <= Len(sources)
    /\ FirstSent(sources[idx]) # <<>>
    /\ LET src == sources[idx]
           first_sent == FirstSent(src)
           assigned == AssignCitation(citations_map, citation_counter, src.source_id)
           citation_idx == assigned.map[src.source_id]
           citation == [source_id |-> src.source_id, start |-> 0,
                        end |-> Len(first_sent)]
           call == [sentence |-> first_sent,
                    evidence |-> << [text |-> src.snippet, url |-> src.url] >>]
       IN  /\ citations_map' = assigned.map
           /\ citation_counter' = assigned.counter
           /\ answer_html_parts' =
                 Append(answer_html_parts,
                        [first_sent |-> first_sent, citation_idx |-> citation_idx])
           /\ \E reply \in VerifierReplies(call) :
                 /\ verifierCalls' =
                       Append(verifierCalls, [body |-> call, reply |-> reply])
                 /\ sentences' =
                       Append(sentences,
                              [text |-> Append(first_sent, "."),
                               citations |-> <<citation>>,
                               verifier |-> VerifierResult(reply, first_sent),
                               weight |-> 1])
    /\ idx' = idx + 1
    /\ UNCHANGED <<pc, request, trace_id, retrieverCalls, sources_raw, sources,
                   gauges, response, verifierVars, retrieverVars,
                   evalVars, handlers>>

\* lines 208-211: the four metric functions over the finished sentences
Metrics(ss) ==
    [swa |-> support_weighted_accuracy(ss), ner |-> no_evidence_rate(ss),
     cr |-> contradiction_rate(ss), ece |-> calibration_error(ss, NumBuckets)]

\* mutant of SetGauges: Gauge.inc in place of Gauge.set
SetGaugesInc(old, m) ==
    [swa |-> FracAdd(old.swa, m.swa), ner |-> FracAdd(old.ner, m.ner),
     cr |-> FracAdd(old.cr, m.cr), ece |-> FracAdd(old.ece, m.ece)]

\* lines 212-215: Gauge.set overwrites whatever the gauge held
SetGauges(old, m) == m

\* after the loop: metrics, gauges, AnswerResponse
Answer_Respond ==
    /\ pc = "synth"
    /\ idx > Len(sources)
    /\ \E m \in {Metrics(sentences)} :
          /\ gauges' = SetGauges(gauges, m)
          /\ response' =
                IF m.swa.num >= 0 /\ m.swa.num <= m.swa.den
                THEN [status |-> 200, trace_id |-> trace_id,
                      answer_html |-> answer_html_parts,
                      sentences |-> sentences, sources |-> sources,
                      confidence_overall |-> m.swa,
                      metrics_snapshot |->
                          [support_rate |-> m.swa, ner |-> m.ner, cr |-> m.cr,
                           ece |-> m.ece]]
                ELSE [status |-> 500]
    /\ pc' = "done"
    /\ UNCHANGED <<request, trace_id, retrieverCalls, verifierCalls, sources_raw,
                   sources, idx, loopVars, verifierVars, retrieverVars,
                   evalVars, handlers>>

\* ---- several /v1/answer requests in one process
\* The handler is a coroutine without an await: between two of its downstream
\* calls nothing else runs, and lines 207-215 hold no call at all.  The steps
\* below let requests interleave at the downstream calls, which covers every
\* schedule the event loop can produce.
\* A handler's local state; agg_no is the rank of its metric-aggregation step
\* among those of the process (0 before it).
IdleHandler ==
    [pc |-> "idle", status |-> 0, sources |-> <<>>, idx |-> 1, sentences |-> <<>>,
     agg_no |-> 0]

\* the retriever's replies met by the concurrent requests
HandlerResults ==
    { <<>>,
      << [title |-> "T4", url |-> U1, snippet |-> <<"a", ".">>] >>,
      << [source_id |-> "s1", title |-> "T1", url |-> U1,
          snippet |-> <<"a", " ", "b", ".", " ", "c">>] >>,
      << [source_id |-> "s5", title |-> "T5", url |-> U1,
          snippet |-> <<"a", "SIGMA", ".", "b">>] >>,
      << [source_id |-> "s1", title |-> "T1", url |-> U1,
          snippet |-> <<"a", " ", "b", ".", " ", "c">>],
         [source_id |-> "s2", title |-> "T2", url |-> U2,
          snippet |-> <<" ", ".", "a">>],
         [source_id |-> "s5", title |-> "T5", url |-> U1,
          snippet |-> <<"a", "SIGMA", ".", "b">>] >> }

HandlerRetrieverReplies ==
    { [kind |-> "timeout"], [kind |-> "http", status |-> 500] }
    \cup { [kind |-> "http", status |-> 200, json |-> [results |-> l]] :
             l \in HandlerResults }

answerLocals == <<pc, request, trace_id, retrieverCalls, verifierCalls, sources_raw,
                  sources, idx, sentences, citations_map, citation_counter,
                  answer_html_parts, response>>

HandlersInit == handlers = [r \in 1..MaxRequests |-> IdleHandler]

\* request r: the retriever call and what follows it up to the loop
Handler_Retrieve(r) ==
    /\ handlers[r].pc = "idle"
    /\ \E reply \in HandlerRetrieverReplies :
          LET parsed == ParseSources(Get(reply.json, "results", <<>>), 1)
          IN  handlers' = [handlers EXCEPT ![r] =
                 IF RequestRaises(reply)
                 THEN [@ EXCEPT !.pc = "done", !.status = 502]
                 ELSE IF parsed = <<>>
                 THEN [@ EXCEPT !.pc = "done", !.status = 404]
                 ELSE [@ EXCEPT !.pc = "synth", !.sources = parsed]]
    /\ UNCHANGED <<gauges, answerLocals, verifierVars, retrieverVars, evalVars>>

\* request r: one pass of the loop over its sources
Handler_Loop(r) ==
    /\ handlers[r].pc = "synth"
    /\ handlers[r].idx <= Len(handlers[r].sources)
    /\ LET src == handlers[r].sources[handlers[r].idx]
           first_sent == FirstSent(src)
           call == [sentence |-> first_sent,
                    evidence |-> << [text |-> src.snippet, url |-> src.url] >>]
       IN  IF first_sent = <<>>
           THEN handlers' = [handlers EXCEPT ![r].idx = @ + 1]
           ELSE \E reply \in VerifierReplies(call) :
                   handlers' = [handlers EXCEPT
                      ![r].idx = @ + 1,
                      ![r].sentences =
                          Append(@, [text |-> Append(first_sent, "."),
                                     citations |-> << [source_id |-> src.source_id,
                                                       start |-> 0,
                                                       end |-> Len(first_sent)] >>,
                                     verifier |-> VerifierResult(reply, first_sent),
                                     weight |-> 1])]
    /\ UNCHANGED <<gauges, answerLocals, verifierVars, retrieverVars, evalVars>>

\* request r: lines 207-237, the metrics, the four gauges and the response
Handler_Respond(r) ==
    /\ handlers[r].pc = "synth"
    /\ handlers[r].idx > Len(handlers[r].sources)
    /\ \E m \in {Metrics(handlers[r].sentences)} :
          /\ gauges' = SetGauges(gauges, m)
          /\ handlers' = [handlers EXCEPT ![r] =
                [pc |-> "done", status |-> 200, sources |-> @.sources,
                 idx |-> @.idx, sentences |-> @.sentences,
                 agg_no |-> 1 + Cardinality({ q \in 1..MaxRequests :
                                               handlers[q].agg_no > 0 }),
                 confidence_overall |-> m.swa,
                 metrics_snapshot |-> [support_rate |-> m.swa, ner |-> m.ner,
                                       cr |-> m.cr, ece |-> m.ece]]]
    /\ UNCHANGED <<answerLocals, verifierVars, retrieverVars, evalVars>>

HandlersNext ==
    \E r \in 1..MaxRequests :
        \/ Handler_Retrieve(r)
        \/ Handler_Loop(r)
        \/ Handler_Respond(r)

AnswerNext ==
    \/ Answer_Receive
    \/ Answer_Retrieve
    \/ Answer_Skip
    \/ Answer_Verify
    \/ Answer_Respond

\* --------------------------------------------------------- specifications
RetrieverIdle ==
    /\ corpusFile = [exists |-> FALSE]
    /\ retrieverCache = [cached |-> FALSE]
    /\ corpusReads = 0
    /\ searchReq = NoBody
    /\ searchResults = NoResults
    /\ searchResp = NoResp

EvalIdle ==
    /\ metricCall = NoCall
    /\ metricSwa = FracZero
    /\ logsDir = [exists |-> FALSE]
    /\ report = NoReport

HandlersIdle == handlers = <<>>

InitVerify == VerifierInit /\ RetrieverIdle /\ AnswerInit /\ EvalIdle /\ HandlersIdle
InitSearch == VerifierInit /\ RetrieverInit /\ AnswerInit /\ EvalIdle /\ HandlersIdle
InitAnswer == VerifierInit /\ RetrieverIdle /\ AnswerInit /\ EvalIdle /\ HandlersIdle

SpecVerify == InitVerify /\ [][Verify]_vars
SpecSearch == InitSearch /\ [][SearchNext]_vars
SpecAnswer == InitAnswer /\ [][AnswerNext]_vars

InitSwa == VerifierInit /\ RetrieverIdle /\ AnswerInit /\ EvalIdle /\ HandlersIdle
SpecSwa == InitSwa /\ [][SupportWeightedAccuracy]_vars

InitProcess == VerifierInit /\ ProcessInit /\ AnswerInit /\ EvalIdle /\ HandlersIdle
SpecProcess == InitProcess /\ [][ProcessNext]_vars

InitHandlers == VerifierInit /\ RetrieverIdle /\ AnswerInit /\ EvalIdle /\ HandlersInit
SpecHandlers == InitHandlers /\ [][HandlersNext]_vars

InitReport == VerifierInit /\ RetrieverIdle /\ AnswerInit /\ ReportInit /\ HandlersIdle
SpecReport == InitReport /\ [][NightlyReport]_vars

\* ============================================================== properties

\* ---- /v1/verify
VerifyAnswered ==
    /\ Get(verifyReq, "sentence", <<>>) # <<>>
    /\ Get(verifyReq, "evidence", <<>>) # <<>>

EvidenceText(i) == lower(Get(verifyReq.evidence[i], "text", <<>>))

EntailedBy(i) == IsSubstring(lower(verifyReq.sentence), EvidenceText(i))

WeakBy(i) ==
    SeqToSet(split(lower(verifyReq.sentence))) \cap SeqToSet(split(EvidenceText(i))) # {}

SearchAnswered == searchResp.status = 200 /\ "results" \in DOMAIN searchResp

SearchTopK == Get(searchReq, "top_k", DefaultTopK)

QueryTokens == SeqToSet(split(lower(searchReq.query)))

Shares(i) == QueryTokens \cap tokens(retrieverCache.documents[i]) # {}

SomeDocShares == \E i \in 1..Len(retrieverCache.documents) : Shares(i)

\* C5: a search over a non-empty corpus never returns an empty result list,
\* whatever top_k the endpoint accepted; with no token overlap the result is
\* the first top_k documents in load order, each with score 0.0.
C5_NeverEmpty ==
    (SearchAnswered /\ retrieverCache.documents # <<>>) =>
        /\ searchResp.results # <<>>
        /\ ~SomeDocShares =>
              LET n == Len(retrieverCache.documents)
                  m == IF SearchTopK < n THEN SearchTopK ELSE n
              IN  /\ Len(searchResults) = m
                  /\ \A j \in 1..Len(searchResults) :
                        searchResults[j] = [doc |-> j, score |-> Zero]

\* C6: when some document shares a token with the query, every result has
\* score |query tokens /\ doc tokens| / |query tokens| in (0, 1], the results
\* are in descending score order, equal scores are in corpus load order, and
\* no document without a shared token is among them.
C6_RankedOrder ==
    (SearchAnswered /\ SomeDocShares) =>
        /\ \A j \in 1..Len(searchResults) :
              LET r == searchResults[j]
              IN  /\ Shares(r.doc)
                  /\ r.score.num > 0 /\ r.score.num <= r.score.den
                  /\ r.score.num =
                        Cardinality(QueryTokens \cap tokens(retrieverCache.documents[r.doc]))
                  /\ r.score.den = Cardinality(QueryTokens)
                  /\ searchResp.results[j].score = r.score
                  /\ searchResp.results[j].source_id =
                        retrieverCache.documents[r.doc].source_id
        /\ \A j, k \in 1..Len(searchResults) :
              j < k =>
                  /\ ~ScoreGt(searchResults[k].score, searchResults[j].score)
                  /\ ScoreEq(searchResults[k].score, searchResults[j].score)
                        => searchResults[j].doc < searchResults[k].doc

\* C6 witness: a ranking that reorders the corpus and holds a tie
C6_Witness ==
    /\ SearchAnswered /\ SomeDocShares
    /\ \E j, k \in 1..Len(searchResults) :
          j < k /\ ScoreEq(searchResults[j].score, searchResults[k].score)
    /\ \E j, k \in 1..Len(searchResults) :
          j < k /\ searchResults[j].doc > searchResults[k].doc

\* C7: the result list is never longer than the top_k that POST /v1/search
\* forwarded to SimpleRetriever.search, in either branch.
C7_AtMostTopK ==
    SearchAnswered => Len(searchResults) <= SearchTopK

\* ---- /v1/answer
\* the k-th smallest element of a set of positions
Nth(S, k) == CHOOSE i \in S : Cardinality({ j \in S : j <= i }) = k

\* the retriever call did not succeed: transport error, timeout, 4xx/5xx
RetrieverCallFailed(c) ==
    c.reply.kind \in {"transport", "timeout"}
    \/ (c.reply.kind = "http" /\ c.reply.status >= 400)

\* C1: once the retriever call of a request has failed (transport error,
\* timeout or non-success status) the request has ended with 502 and no
\* answer; that call is the only retriever call and no verifier call is made.
C1_RetrieverFailureIs502 ==
    \A i \in 1..Len(retrieverCalls) :
        RetrieverCallFailed(retrieverCalls[i]) =>
            /\ pc = "done"
            /\ response.status = 502
            /\ DOMAIN response \cap {"answer_html", "sentences"} = {}
            /\ Len(retrieverCalls) = 1
            /\ verifierCalls = <<>>
            /\ sentences = <<>>

\* C1 witness: the retriever call timed out and the request ended with 502
C1_Witness ==
    /\ pc = "done"
    /\ Len(retrieverCalls) = 1
    /\ retrieverCalls[1].reply.kind = "timeout"
    /\ response.status = 502

\* the verifier call did not yield a usable result: transport error,
\* non-success status, or a malformed response
VerifierCallFailed(reply) ==
    \/ reply.kind = "transport"
    \/ reply.kind = "http" /\ reply.status >= 400
    \/ reply.kind = "http" /\ reply.status < 400 /\ "json" \notin DOMAIN reply
    \/ /\ reply.kind = "http" /\ reply.status < 400 /\ "json" \in DOMAIN reply
       /\ \/ Get(reply.json, "label", "unsupported") \notin Labels
          \/ Get(reply.json, "confidence", 5) \notin 0..10

\* positions in sources whose first sentence is not empty
KeptIdx == { i \in 1..Len(sources) : FirstSent(sources[i]) # <<>> }

\* C2: with at least one valid source the request ends with 200 and one
\* Sentence per source that yields a sentence, in order, whatever the verifier
\* calls did; the Sentence of a failed verifier call carries (unsupported, 0.0,
\* [(0, len(sentence))]), and every Sentence's result is the one its own
\* verifier reply determines.
C2_VerifierFailureDegrades ==
    /\ Len(sentences) = Len(verifierCalls)
    /\ \A k \in 1..Len(sentences) :
          LET reply == verifierCalls[k].reply
              sent  == verifierCalls[k].body.sentence
              v     == sentences[k].verifier
          IN  /\ sentences[k].text = Append(sent, ".")
              /\ IF VerifierCallFailed(reply)
                 THEN v = [label |-> "unsupported", confidence |-> 0,
                           unsupported_spans |-> << <<0, Len(sent)>> >>]
                 ELSE /\ v.label = Get(reply.json, "label", "unsupported")
                      /\ v.confidence = Get(reply.json, "confidence", 5)
                      /\ v.unsupported_spans =
                            Get(reply.json, "unsupported_spans", <<>>)
    /\ (pc = "done" /\ sources # <<>>) =>
          /\ response.status = 200
          /\ response.sentences = sentences
          /\ Len(sentences) = Cardinality(KeptIdx)
          /\ \A k \in 1..Len(sentences) :
                LET src == sources[Nth(KeptIdx, k)]
                IN  /\ sentences[k].text = Append(FirstSent(src), ".")
                    /\ sentences[k].citations[1].source_id = src.source_id

\* C2 witness: a 200 response with two sentences, the first from a failed
\* verifier call, the second from a successful one
C2_Witness ==
    /\ pc = "done"
    /\ response.status = 200
    /\ Len(sentences) = 2
    /\ VerifierCallFailed(verifierCalls[1].reply)
    /\ sentences[1].verifier.confidence = 0
    /\ ~VerifierCallFailed(verifierCalls[2].reply)
    /\ sentences[2].verifier.label = "entailed"

\* a raw record that can be parsed into a Source
RecordValid(s) ==
    /\ "source_id" \in DOMAIN s
    /\ "title" \in DOMAIN s
    /\ "url" \in DOMAIN s
    /\ s.url.scheme \in {"http", "https"}
    /\ s.url.host # ""

ValidIdx == { i \in 1..Len(sources_raw) : RecordValid(sources_raw[i]) }

\* the retriever answered with a JSON body
GotResults ==
    /\ Len(retrieverCalls) = 1
    /\ ~RetrieverCallFailed(retrieverCalls[1])
    /\ "json" \in DOMAIN retrieverCalls[1].reply

\* C3: whatever list of raw results the retriever returned, the records that
\* cannot be parsed into a Source are dropped, `sources` is the valid records
\* in retrieval order, the request ends with 404 exactly when no valid record
\* remains and otherwise with 200, naming only valid sources.
C3_InvalidSourcesDropped ==
    GotResults =>
        /\ sources_raw = Get(retrieverCalls[1].reply.json, "results", <<>>)
        /\ Len(sources) = Cardinality(ValidIdx)
        /\ \A k \in 1..Len(sources) :
              LET r == sources_raw[Nth(ValidIdx, k)]
              IN  /\ sources[k].source_id = r.source_id
                  /\ sources[k].title = r.title
                  /\ sources[k].url = HttpUrl(r.url)
                  /\ sources[k].snippet = Get(r, "snippet", <<>>)
        /\ pc = "done" =>
              /\ response.status = 404 <=> ValidIdx = {}
              /\ ValidIdx # {} =>
                    /\ response.status = 200
                    /\ response.sources = sources
                    /\ \A k \in 1..Len(response.sentences) :
                          \E i \in ValidIdx :
                              response.sentences[k].citations[1].source_id =
                                  sources_raw[i].source_id

\* C3 witness: two raw records, the first without a required field, and a
\* 200 response whose sources are the second one alone
C3_Witness ==
    /\ pc = "done"
    /\ GotResults
    /\ Len(sources_raw) = 2
    /\ "source_id" \notin DOMAIN sources_raw[1]
    /\ ValidIdx = {2}
    /\ response.status = 200
    /\ Len(response.sources) = 1
    /\ Len(response.sentences) = 1

\* the source a kept sentence cites
PartSource(k) == sentences[k].citations[1].source_id

\* C8: the citation indices in answer_html are dense from 1 in first-use
\* order over the kept sentences: a recurring source_id reuses its index, a
\* new one takes the number of distinct source_ids before it plus one, skipped
\* sources take none, and the indices used are exactly 1..n for n distinct
\* source_ids among the kept sentences.
C8_DenseCitations ==
    LET n == Len(answer_html_parts)
    IN  /\ Len(sentences) = n
        /\ \A k \in 1..n :
              LET c == answer_html_parts[k].citation_idx
                  earlier == { j \in 1..(k - 1) : PartSource(j) = PartSource(k) }
              IN  IF earlier # {}
                  THEN \A j \in earlier : answer_html_parts[j].citation_idx = c
                  ELSE c = Cardinality({ PartSource(j) : j \in 1..(k - 1) }) + 1
        /\ { answer_html_parts[k].citation_idx : k \in 1..n }
              = 1..Cardinality({ PartSource(k) : k \in 1..n })
        /\ response.status = 200 =>
              /\ response.answer_html = answer_html_parts
              /\ n = Cardinality(KeptIdx)
              /\ \A k \in 1..n :
                    PartSource(k) = sources[Nth(KeptIdx, k)].source_id

\* C8 witness: a 200 response whose two sentences cite the same source_id
\* under index 1
C8_Witness ==
    /\ response.status = 200
    /\ Len(answer_html_parts) = 2
    /\ PartSource(1) = PartSource(2)
    /\ answer_html_parts[1].citation_idx = 1
    /\ answer_html_parts[2].citation_idx = 1

\* a body that lacks trace_id and is otherwise a valid AnswerRequest
OnlyTraceMissing ==
    /\ request # NoBody
    /\ "trace_id" \notin DOMAIN request
    /\ "query" \in DOMAIN request
    /\ Get(request, "mode", "fast") \in Modes
    /\ Get(request, "top_k", AnswerDefaultTopK) \in TopKMin..TopKMax

\* C9: a request without trace_id is accepted; the service generates an
\* identifier, sends it to the retriever and returns it as the response's
\* trace_id.
C9_TraceIdOptional ==
    OnlyTraceMissing =>
        /\ response.status # 422
        /\ trace_id = Uuid4
        /\ \A i \in 1..Len(retrieverCalls) :
              retrieverCalls[i].body.trace_id = trace_id
        /\ response.status = 200 => response.trace_id = trace_id

\* a body that breaks a constraint of AnswerRequest
ViolatesConstraints ==
    /\ request # NoBody
    /\ \/ "query" \in DOMAIN request /\ request.query = <<>>
       \/ Get(request, "top_k", AnswerDefaultTopK) \notin TopKMin..TopKMax
       \/ Get(request, "mode", "fast") \notin Modes

\* C10: a request with an empty query, a top_k outside 1..10 or a mode outside
\* {fast, strict} ends with a 4xx response, and neither the retriever nor the
\* verifier is called for it.
C10_InvalidInputFailsFast ==
    ViolatesConstraints =>
        /\ retrieverCalls = <<>>
        /\ verifierCalls = <<>>
        /\ pc = "done" => response.status \in 400..499

\* the k-th verifier call was answered by the verifier service itself
VerifierReachable(k) ==
    LET c == verifierCalls[k]
        r == verify(c.body)
    IN  /\ r.status = 200
        /\ c.reply.kind = "http" /\ c.reply.status = 200
        /\ "json" \in DOMAIN c.reply
        /\ c.reply.json = [label |-> r.label, confidence |-> r.confidence,
                           unsupported_spans |-> r.unsupported_spans]

One == [num |-> 1, den |-> 1]

\* C11: every sentence synthesized from a snippet and checked by the reachable
\* verifier is labelled entailed with no unsupported spans, so a one-sentence
\* answer has confidence_overall = SWA = 1.0 and metrics_snapshot.support_rate
\* equal to it.
C11_SnippetSentenceEntailed ==
    /\ \A k \in 1..Len(sentences) :
          (k <= Len(verifierCalls) /\ VerifierReachable(k)) =>
              /\ sentences[k].verifier.label = "entailed"
              /\ sentences[k].verifier.unsupported_spans = <<>>
    /\ (/\ response.status = 200
        /\ Len(sentences) = 1
        /\ VerifierReachable(1)) =>
              /\ response.confidence_overall = One
              /\ response.metrics_snapshot.support_rate = response.confidence_overall

\* ---- support_weighted_accuracy
\* the character spans [start, end) of the maximal runs of non-whitespace
TokenSpans(text) ==
    { <<a, b>> \in (0..Len(text)) \X (0..Len(text)) :
        /\ a < b
        /\ \A i \in (a + 1)..b : text[i] \notin Whitespace
        /\ a = 0 \/ text[a] \in Whitespace
        /\ b = Len(text) \/ text[b + 1] \in Whitespace }

SentenceText(s) == Get(s, "text", <<>>)
SentenceSpans(s) == Get(Get(s, "verifier", <<>>), "unsupported_spans", <<>>)
SentenceWeight(s) == Get(s, "weight", 1)

\* the tokens of a sentence that overlap at least one unsupported span
UnsupportedTokens(s) ==
    { t \in TokenSpans(SentenceText(s)) :
        \E k \in 1..Len(SentenceSpans(s)) :
            t[1] < SentenceSpans(s)[k][2] /\ t[2] > SentenceSpans(s)[k][1] }

SupportedCount(s) ==
    Cardinality(TokenSpans(SentenceText(s))) - Cardinality(UnsupportedTokens(s))

RECURSIVE WeightedSum(_, _, _)
WeightedSum(ss, i, supportedOnly) ==
    IF i > Len(ss) THEN 0
    ELSE SentenceWeight(ss[i]) *
            (IF supportedOnly THEN SupportedCount(ss[i])
             ELSE Cardinality(TokenSpans(SentenceText(ss[i]))))
         + WeightedSum(ss, i + 1, supportedOnly)

SwaCalled == metricCall.called

SwaIsRatio ==
    LET num == WeightedSum(metricCall.sentences, 1, TRUE)
        den == WeightedSum(metricCall.sentences, 1, FALSE)
    IN  IF den = 0 THEN metricSwa = FracZero
        ELSE metricSwa.num * den = num * metricSwa.den /\ metricSwa.den > 0

SingleFullySupported ==
    /\ Len(metricCall.sentences) = 1
    /\ SentenceWeight(metricCall.sentences[1]) = 1
    /\ SentenceSpans(metricCall.sentences[1]) = <<>>

\* C12 as stated: SWA is the weighted ratio of supported to total tokens, a
\* token being unsupported exactly when its character span overlaps some
\* unsupported span and counted once; 0.0 for an empty list or a zero
\* denominator; and 1.0 for every single weight-1.0 sentence without
\* unsupported spans.
C12_SwaAsStated ==
    SwaCalled =>
        /\ SwaIsRatio
        /\ SingleFullySupported => metricSwa = One

\* C12 amended: as above, the last case restricted to a sentence with at
\* least one token (a sentence without tokens has a zero denominator and
\* yields 0.0).
C12_SwaRatio ==
    SwaCalled =>
        /\ SwaIsRatio
        /\ (/\ SingleFullySupported
            /\ TokenSpans(SentenceText(metricCall.sentences[1])) # {}) => metricSwa = One

\* C12 witness: two sentences of different weight, one with a token that two
\* spans overlap, and a result strictly between 0 and 1
C12_Witness ==
    /\ SwaCalled
    /\ Len(metricCall.sentences) = 2
    /\ SentenceWeight(metricCall.sentences[1]) = 1
    /\ SentenceWeight(metricCall.sentences[2]) = 2
    /\ \E t \in UnsupportedTokens(metricCall.sentences[1]) :
          \A k \in 1..2 :
              /\ Len(SentenceSpans(metricCall.sentences[1])) = 2
              /\ t[1] < SentenceSpans(metricCall.sentences[1])[k][2]
              /\ t[2] > SentenceSpans(metricCall.sentences[1])[k][1]
    /\ SupportedCount(metricCall.sentences[2]) > 0
    /\ metricSwa.num > 0 /\ metricSwa.num < metricSwa.den

\* every unsupported span of a Sentence lies within its text
SpansWithin(sentence) ==
    \A j \in 1..Len(sentence.verifier.unsupported_spans) :
        LET span == sentence.verifier.unsupported_spans[j]
        IN  /\ 0 <= span[1]
            /\ span[1] <= span[2]
            /\ span[2] <= Len(sentence.text)

\* C13: in every Sentence the handler builds, and so in every Sentence of a
\* /v1/answer response, each unsupported span satisfies 0 <= start <= end and
\* stays within the sentence text, whether it came from the verifier's
\* response or from the default of a failed verifier call.
C13_SpansWithinText ==
    /\ \A k \in 1..Len(sentences) : SpansWithin(sentences[k])
    /\ response.status = 200 =>
          \A k \in 1..Len(response.sentences) : SpansWithin(response.sentences[k])

\* C13 witness: a 200 response with a span from the verifier's own response
\* and a span from the default of a failed call
C13_Witness ==
    /\ response.status = 200
    /\ Len(response.sentences) = 2
    /\ VerifierReachable(1)
    /\ response.sentences[1].verifier.unsupported_spans # <<>>
    /\ VerifierCallFailed(verifierCalls[2].reply)
    /\ response.sentences[2].verifier.unsupported_spans # <<>>

\* ---- nightly_report
\* the files of the logs directory that can be used as a MetricsSnapshot
\* object: *.json files holding a JSON object
UsableFiles ==
    IF ~logsDir.exists THEN {}
    ELSE { i \in 1..Len(logsDir.files) :
             /\ logsDir.files[i].ext = "json"
             /\ logsDir.files[i].json
             /\ logsDir.files[i].kind = "object" }

RECURSIVE SumOver(_, _)
SumOver(S, key) ==
    IF S = {} THEN 0
    ELSE LET i == CHOOSE i \in S : TRUE
         IN  Get(logsDir.files[i].value, key, 0) + SumOver(S \ {i}, key)

\* agg is the arithmetic mean of the snapshot field `key` over the usable
\* files (values in tenths), 0.0 when there is none
IsMean(agg, key) ==
    IF UsableFiles = {} THEN agg = FracZero
    ELSE agg.num * 10 * Cardinality(UsableFiles) = SumOver(UsableFiles, key) * agg.den

\* C14: whatever the logs directory holds, a run of the nightly report writes
\* the HTML report, and each aggregate is the mean of its field over the
\* snapshot files that are usable (invalid JSON and JSON that is not an object
\* skipped), 0.0 when there is none or the directory does not exist.
C14_BadSnapshotsSkipped ==
    report.ran =>
        /\ report.written
        /\ IsMean(report.agg.swa, "support_rate")
        /\ IsMean(report.agg.ner, "ner")
        /\ IsMean(report.agg.cr, "cr")
        /\ IsMean(report.agg.ece, "ece")

\* ---- the retriever process
\* C15 as stated: over any sequence of /v1/search and /readyz calls the corpus
\* file is read at most once, and once the instance exists every later call
\* gets that same instance with its document list unchanged.
C15_ReadAtMostOnce ==
    /\ [](corpusReads <= 1)
    /\ [][retrieverCache.cached => retrieverCache' = retrieverCache]_vars

\* C15 amended: the corpus file is read successfully at most once.  The
\* instance is created by the first get_retriever call whose load succeeds,
\* from the file as it is then; from then on no call reads the file, every call
\* gets that instance and its document list never changes.  A read that fails
\* leaves no instance behind.
C15_LoadedAtMostOnce ==
    [][/\ retrieverCache.cached =>
             /\ retrieverCache' = retrieverCache
             /\ corpusReads' = corpusReads
       /\ (~retrieverCache.cached /\ retrieverCache'.cached) =>
             /\ corpusFile.exists /\ "data" \in DOMAIN corpusFile
             /\ Len(retrieverCache'.documents) = Len(corpusFile.data)
             /\ \A i \in 1..Len(corpusFile.data) :
                   /\ retrieverCache'.documents[i].source_id = corpusFile.data[i].source_id
                   /\ retrieverCache'.documents[i].content = corpusFile.data[i].content
             /\ corpusReads < MaxReads => corpusReads' = corpusReads + 1
       /\ (~retrieverCache.cached /\ ~retrieverCache'.cached
             /\ corpusReads' # corpusReads) =>
             corpusFile.exists /\ corpusReads' = corpusReads + 1
      ]_vars

\* C15 witness: a search answered from the cached instance after the corpus
\* file was replaced by a different well-formed one, the file read once
C15_Witness ==
    /\ retrieverCache.cached
    /\ corpusReads = 1
    /\ searchResp.status = 200 /\ "results" \in DOMAIN searchResp
    /\ searchResp.results # <<>>
    /\ corpusFile.exists /\ "data" \in DOMAIN corpusFile
    /\ corpusFile.data # <<>>
    /\ \A i \in 1..Len(corpusFile.data) : "content" \in DOMAIN corpusFile.data[i]
    /\ corpusFile.data[1].source_id # retrieverCache.documents[1].source_id
    /\ searchResp.results[1].source_id = retrieverCache.documents[searchResults[1].doc].source_id

\* the corpus file as it is can be loaded
FileLoadable ==
    /\ corpusFile.exists
    /\ "data" \in DOMAIN corpusFile
    /\ \A i \in 1..Len(corpusFile.data) :
          {"source_id", "title", "url", "content"} \subseteq DOMAIN corpusFile.data[i]

\* the singleton exists or can be constructed from the corpus file as it is
Constructible == retrieverCache.cached \/ FileLoadable

\* a step that is a /readyz call, and one that is a /v1/search call with a query
ReadyCall == corpusFile' = corpusFile /\ searchReq' = [readyz |-> TRUE]
SearchCall ==
    /\ corpusFile' = corpusFile
    /\ "query" \in DOMAIN searchReq'
    /\ searchReq'.query # <<>>

\* C18 as stated: in every state of the process a /readyz call answers ready
\* exactly when the corpus file can be loaded, and 503 otherwise (so 503
\* whenever the file is absent); a failed load leaves nothing cached; the
\* first /readyz or /v1/search made while the file is loadable succeeds and
\* fixes the singleton, which no later step changes.
C18_ReadyIffFileLoadable ==
    [][/\ ReadyCall =>
             /\ searchResp'.status = (IF FileLoadable THEN 200 ELSE 503)
             /\ ~FileLoadable => retrieverCache' = retrieverCache
             /\ FileLoadable => retrieverCache'.cached
       /\ (SearchCall /\ FileLoadable) =>
             searchResp'.status = 200 /\ retrieverCache'.cached
       /\ retrieverCache.cached => retrieverCache' = retrieverCache
      ]_vars

\* C18 amended: a /readyz call answers ready exactly when the singleton
\* already exists or the corpus file can be loaded, and 503 otherwise; while
\* no load has succeeded, a failed load leaves nothing cached and the next
\* call tries again; the first /readyz or /v1/search (with a query) made
\* while the file is loadable succeeds and fixes the singleton, which no later
\* step changes, whatever happens to the file.
C18_ReadyTracksCorpus ==
    [][/\ ReadyCall =>
             /\ searchResp'.status = (IF Constructible THEN 200 ELSE 503)
             /\ retrieverCache'.cached <=> Constructible
       /\ SearchCall =>
             /\ searchResp'.status = (IF Constructible THEN 200 ELSE 500)
             /\ retrieverCache'.cached <=> Constructible
       /\ retrieverCache.cached => retrieverCache' = retrieverCache
      ]_vars

\* C18 witness: /readyz answers ready from an instance built at the second
\* read of the file, the first read having failed, the file now gone again
C18_Witness ==
    /\ searchReq = [readyz |-> TRUE]
    /\ searchResp.status = 200
    /\ retrieverCache.cached
    /\ corpusReads = 2
    /\ ~corpusFile.exists

\* ---- the verifier calls of one /v1/answer request
\* positions of the snippet that lie before its first period and hold a
\* character that is not whitespace
SentenceChars(src) ==
    { i \in 1..Len(src.snippet) :
        /\ src.snippet[i] \notin Whitespace
        /\ \A j \in 1..i : src.snippet[j] # "." }

\* the sentence a source yields: from the first to the last such position
SentenceOf(src) ==
    LET S == SentenceChars(src)
        a == CHOOSE i \in S : \A j \in S : i <= j
        b == CHOOSE i \in S : \A j \in S : j <= i
    IN  SubSeq(src.snippet, a, b)

\* the sources the loop has passed that yield a sentence
PassedKept == { i \in 1..(idx - 1) : i <= Len(sources) /\ SentenceChars(sources[i]) # {} }

\* C17: within one request the verifier calls made so far are exactly one per
\* source already passed that yields a sentence, in retrieval order, each for
\* that source's sentence with its snippet as the only evidence; none is made
\* for a source without a sentence; none is made unless the one retriever call
\* succeeded; a failed call is not repeated; and a 200 response follows
\* exactly one call per kept source.
C17_OneVerifierCallPerSentence ==
    /\ Len(verifierCalls) = Cardinality(PassedKept)
    /\ \A k \in 1..Len(verifierCalls) :
          LET src == sources[Nth(PassedKept, k)]
          IN  /\ verifierCalls[k].body.sentence = SentenceOf(src)
              /\ verifierCalls[k].body.evidence =
                    << [text |-> src.snippet, url |-> src.url] >>
    /\ verifierCalls # <<>> =>
          /\ Len(retrieverCalls) = 1
          /\ ~RetrieverCallFailed(retrieverCalls[1])
    /\ response.status = 200 =>
          /\ idx = Len(sources) + 1
          /\ Len(response.sentences) = Len(verifierCalls)

\* C17 witness: a 200 response over two sources, the first without a
\* sentence, the second with a verifier call that failed and was not repeated
C17_Witness ==
    /\ response.status = 200
    /\ Len(sources) = 2
    /\ SentenceChars(sources[1]) = {}
    /\ Len(verifierCalls) = 1
    /\ VerifierCallFailed(verifierCalls[1].reply)

\* ---- the spans of /v1/verify and what SWA makes of them
\* the Sentence dict the metrics see for the verified sentence under `text`
VerifiedAs(text) ==
    [text |-> text,
     verifier |-> [label |-> verifyResp.label, confidence |-> verifyResp.confidence,
                   unsupported_spans |-> verifyResp.unsupported_spans]]

\* SWA counts no token of the sentence as supported
NoSupportedToken(text) ==
    /\ TokenStats(VerifiedAs(text)).unsupported = TokenStats(VerifiedAs(text)).total
    /\ support_weighted_accuracy(<< VerifiedAs(text) >>) = FracZero

Aggregated == { r \in 1..MaxRequests : handlers[r].agg_no > 0 }

\* the one that reached it last
LastAggregated == CHOOSE r \in Aggregated : \A q \in Aggregated : handlers[q].agg_no <= handlers[r].agg_no

\* C16: whatever the interleaving of the requests, the four gauges hold the
\* SWA, NER, CR and ECE that the request which reached the metric-aggregation
\* step last computed and returned; requests that ended in 502 or 404 never
\* reach that step, and as long as no request has reached it the gauges are
\* untouched.
C16_GaugesLastWriteWins ==
    /\ \A r \in 1..MaxRequests :
          handlers[r].status \in {502, 404} => r \notin Aggregated
    /\ IF Aggregated = {}
       THEN gauges = NoGauges
       ELSE LET snap == handlers[LastAggregated].metrics_snapshot
            IN  /\ gauges.swa = snap.support_rate
                /\ gauges.ner = snap.ner
                /\ gauges.cr = snap.cr
                /\ gauges.ece = snap.ece

\* C16 witness: both requests aggregated; request 2 did so first with SWA 1,
\* request 1 after it with SWA 1/3, and the gauge holds 1/3
C16_Witness ==
    /\ Aggregated = {1, 2}
    /\ handlers[1].agg_no = 2
    /\ handlers[2].metrics_snapshot.support_rate = One
    /\ handlers[1].metrics_snapshot.support_rate.num = 1
    /\ handlers[1].metrics_snapshot.support_rate.den = 3
    /\ gauges.swa = handlers[1].metrics_snapshot.support_rate

====
